---- MODULE Spec2Model ----
(***************************************************************************)
(* A model of the neli netlink codec: the open enumerations generated by   *)
(* impl_var (consts.rs), alignto (consts.rs), the generic netlink header   *)
(* Genlmsghdr (genl.rs), the error frame Nlmsgerr and the error types      *)
(* NlError, SerError and DeError (err.rs).                                 *)
(*                                                                         *)
(* A byte is a number in 0..255 and a buffer is a sequence of bytes.       *)
(* TLC's integers are 32-bit signed, so the values of a u32 backing type   *)
(* are drawn below 2^31; every other backing type is modelled in full.     *)
(***************************************************************************)
EXTENDS Integers, Sequences, FiniteSets, TLC

\* ------------------------------------------------------------------ bounds

\* Backing integers are drawn within Slack of a named constant of the family
\* (and from the ends of the type's range).
Slack == 1

\* The machine word (usize) has UsizeBits bits.
UsizeBits == 8

\* Attribute payloads of 0..MaxPayload bytes, and lists of 0..MaxAttrs attributes.
MaxPayload == 3

MaxAttrs == 2

\* Input buffers of 0..MaxInput bytes.
MaxInput == 6

\* Write buffers of a fixed size with room for 0..MaxRoom more bytes.
MaxRoom == 5

\* ------------------------------------------------- enumerations (consts.rs)

\* The backing integer types: width in bytes and range.
TyBytes(ty) ==
    CASE ty = "u8" -> 1
      [] ty = "u16" -> 2
      [] ty = "u32" -> 4
      [] ty = "i32" -> 4

TyMin(ty) == IF ty = "i32" THEN -2147483647 - 1 ELSE 0

TyMax(ty) ==
    CASE ty = "u8" -> 255
      [] ty = "u16" -> 65535
      [] ty = "u32" -> 2147483647
      [] ty = "i32" -> 2147483647

V(var, val) == [var |-> var, val |-> val]

Af ==
    [ty |-> "u8", vars |-> << V("Inet", 2), V("Inet6", 10) >>]

AddrFamily ==
    [ty |-> "i32", vars |-> <<
        V("UnixOrLocal", 1), V("Inet", 2), V("Inet6", 10), V("Ipx", 4),
        V("Netlink", 16), V("X25", 9), V("Ax25", 3), V("Atmpvc", 8),
        V("Appletalk", 5), V("Packet", 17), V("Alg", 38) >>]

IfaF ==
    [ty |-> "u32", vars |-> <<
        V("Secondary", 1), V("Temporary", 1), V("Nodad", 2), V("Optimistic", 4),
        V("Dadfailed", 8), V("Homeaddress", 16), V("Deprecated", 32),
        V("Tentative", 64), V("Permanent", 128), V("Managetempaddr", 256),
        V("Noprefixroute", 512), V("Mcautojoin", 1024),
        V("StablePrivacy", 2048) >>]

Rtn ==
    [ty |-> "u8", vars |-> <<
        V("Unspec", 0), V("Unicast", 1), V("Local", 2), V("Broadcast", 3),
        V("Anycast", 4), V("Multicast", 5), V("Blackhole", 6),
        V("Unreachable", 7), V("Prohibit", 8), V("Throw", 9), V("Nat", 10),
        V("Xresolve", 11) >>]

Rtprot ==
    [ty |-> "u8", vars |-> <<
        V("Unspec", 0), V("Redirect", 1), V("Kernel", 2), V("Boot", 3),
        V("Static", 4) >>]

RtScope ==
    [ty |-> "u8", vars |-> <<
        V("Universe", 0), V("Site", 200), V("Link", 253), V("Host", 254),
        V("Nowhere", 255) >>]

RtTable ==
    [ty |-> "u8", vars |-> <<
        V("Unspec", 0), V("Compat", 252), V("Default", 253), V("Main", 254),
        V("Local", 255) >>]

RtmF ==
    [ty |-> "u32", vars |-> <<
        V("Notify", 256), V("Cloned", 512), V("Equalize", 1024),
        V("Prefix", 2048), V("LookupTable", 4096), V("FibMatch", 8192) >>]

Nud ==
    [ty |-> "u16", vars |-> <<
        V("None", 0), V("Incomplete", 1), V("Reachable", 2), V("Stale", 4),
        V("Delay", 8), V("Probe", 16), V("Failed", 32), V("Noarp", 64),
        V("Permanent", 128) >>]

Ntf ==
    [ty |-> "u8", vars |-> <<
        V("Use", 1), V("Self_", 2), V("Master", 4), V("Proxy", 8),
        V("ExtLearned", 16), V("Offloaded", 32), V("Router", 128) >>]

Ifla ==
    [ty |-> "u16", vars |-> <<
        V("Unspec", 0), V("Address", 1), V("Broadcast", 2), V("Ifname", 3),
        V("Mtu", 4), V("Link", 5), V("Qdisc", 6), V("Stats", 7) >>]

Ifa ==
    [ty |-> "u16", vars |-> <<
        V("Unspec", 0), V("Address", 1), V("Local", 2), V("Label", 3),
        V("Broadcast", 4), V("Anycast", 5), V("Cacheinfo", 6),
        V("Multicast", 7), V("Flags", 8) >>]

Rta ==
    [ty |-> "u16", vars |-> <<
        V("Unspec", 0), V("Dst", 1), V("Src", 2), V("Iif", 3), V("Oif", 4),
        V("Gateway", 5), V("Priority", 6), V("Prefsrc", 7), V("Metrics", 8),
        V("Multipath", 9), V("Protoinfo", 10), V("Flow", 11),
        V("Cacheinfo", 12), V("Session", 13), V("MpAlgo", 14), V("Table", 15),
        V("Mark", 16), V("MfcStats", 17), V("Via", 18), V("Newdst", 19),
        V("Pref", 20), V("EncapType", 21), V("Encap", 22), V("Expires", 23),
        V("Pad", 24), V("Uid", 25), V("TtlPropagate", 26) >>]

\* Atm is given the constant of Appletlk (ARPHRD_APPLETLK), as the source has it.
Arphrd ==
    [ty |-> "u16", vars |-> <<
        V("Netrom", 0), V("Ether", 1), V("Eether", 2), V("AX25", 3),
        V("Pronet", 4), V("Chaos", 5), V("Ieee802", 6), V("Arcnet", 7),
        V("Appletlk", 8), V("Dlci", 15), V("Atm", 8), V("Metricom", 23),
        V("Ieee1394", 24), V("Eui64", 27), V("Infiniband", 32),
        V("Void", 65535), V("None", 65534) >>]

Iff ==
    [ty |-> "u32", vars |-> <<
        V("Up", 1), V("Broadcast", 2), V("Debug", 4), V("Loopback", 8),
        V("Pointopoint", 16), V("Running", 64), V("Noarp", 128),
        V("Promisc", 256), V("Notrailers", 32), V("Allmulti", 512),
        V("Master", 1024), V("Slave", 2048), V("Multicast", 4096),
        V("Portsel", 8192), V("Automedia", 16384), V("Dynamic", 32768),
        V("LowerUp", 65536), V("Dormant", 131072), V("Echo", 262144) >>]

NlFamily ==
    [ty |-> "i32", vars |-> <<
        V("Route", 0), V("Unused", 1), V("Usersock", 2), V("Firewall", 3),
        V("SockOrInetDiag", 4), V("Nflog", 5), V("Xfrm", 6), V("Selinux", 7),
        V("Iscsi", 8), V("Audit", 9), V("FibLookup", 10), V("Connector", 11),
        V("Netfilter", 12), V("Ip6Fw", 13), V("Dnrtmsg", 14),
        V("KobjectUevent", 15), V("Generic", 16), V("Scsitransport", 18),
        V("Ecryptfs", 19), V("Rdma", 20), V("Crypto", 21) >>]

Nlmsg ==
    [ty |-> "u16", vars |-> <<
        V("Noop", 1), V("Error", 2), V("Done", 3), V("Overrun", 4) >>]

GenlId ==
    [ty |-> "u16", vars |-> <<
        V("Ctrl", 16), V("VfsDquot", 17), V("Pmcraid", 18) >>]

NlmF ==
    [ty |-> "u16", vars |-> <<
        V("Request", 1), V("Multi", 2), V("Ack", 4), V("Echo", 8),
        V("DumpIntr", 16), V("DumpFiltered", 32), V("Root", 256),
        V("Match", 512), V("Atomic", 1024), V("Dump", 768),
        V("Replace", 256), V("Excl", 512), V("Create", 1024),
        V("Append", 2048) >>]

CtrlCmd ==
    [ty |-> "u8", vars |-> <<
        V("Unspec", 0), V("Newfamily", 1), V("Delfamily", 2),
        V("Getfamily", 3), V("Newops", 4), V("Delops", 5), V("Getops", 6),
        V("NewmcastGrp", 7), V("DelmcastGrp", 8), V("GetmcastGrp", 9) >>]

CtrlAttr ==
    [ty |-> "u16", vars |-> <<
        V("Unspec", 0), V("FamilyId", 1), V("FamilyName", 2), V("Version", 3),
        V("Hdrsize", 4), V("Maxattr", 5), V("Ops", 6), V("McastGroups", 7) >>]

CtrlAttrMcastGrp ==
    [ty |-> "u16", vars |-> << V("Unspec", 0), V("Name", 1), V("Id", 2) >>]

FamilyNames ==
    { "Af", "AddrFamily", "IfaF", "Rtn", "Rtprot", "RtScope", "RtTable",
      "RtmF", "Nud", "Ntf", "Ifla", "Ifa", "Rta", "Arphrd", "Iff",
      "NlFamily", "Nlmsg", "GenlId", "NlmF", "CtrlCmd", "CtrlAttr",
      "CtrlAttrMcastGrp" }

Family(name) ==
    CASE name = "Af" -> Af
      [] name = "AddrFamily" -> AddrFamily
      [] name = "IfaF" -> IfaF
      [] name = "Rtn" -> Rtn
      [] name = "Rtprot" -> Rtprot
      [] name = "RtScope" -> RtScope
      [] name = "RtTable" -> RtTable
      [] name = "RtmF" -> RtmF
      [] name = "Nud" -> Nud
      [] name = "Ntf" -> Ntf
      [] name = "Ifla" -> Ifla
      [] name = "Ifa" -> Ifa
      [] name = "Rta" -> Rta
      [] name = "Arphrd" -> Arphrd
      [] name = "Iff" -> Iff
      [] name = "NlFamily" -> NlFamily
      [] name = "Nlmsg" -> Nlmsg
      [] name = "GenlId" -> GenlId
      [] name = "NlmF" -> NlmF
      [] name = "CtrlCmd" -> CtrlCmd
      [] name = "CtrlAttr" -> CtrlAttr
      [] name = "CtrlAttrMcastGrp" -> CtrlAttrMcastGrp

\* An enumeration value: a named unit variant, or UnrecognizedVariant(i).
\* Two values are equal (derived PartialEq) iff they are the same variant
\* and, for UnrecognizedVariant, carry the same integer.
Named(var) == [var |-> var, i |-> 0]

UnrecognizedVariant(i) == [var |-> "UnrecognizedVariant", i |-> i]

\* Index of the first match arm `i if i == $val` that accepts v; 0 when none does.
FirstArm(vars, v) ==
    LET hits == {k \in 1..Len(vars) : vars[k].val = v}
    IN  IF hits = {} THEN 0 ELSE CHOOSE k \in hits : \A j \in hits : k <= j

\* FromTy with the fallback arm returning the first variant instead of
\* UnrecognizedVariant(i).
FromTy_FallbackFirst(F, v) ==
    LET k == FirstArm(F.vars, v)
    IN  IF k = 0 THEN Named(F.vars[1].var) ELSE Named(F.vars[k].var)

\* impl From<$ty> for $name
FromTy(F, v) ==
    LET k == FirstArm(F.vars, v)
    IN  IF k = 0 THEN UnrecognizedVariant(v) ELSE Named(F.vars[k].var)

\* impl From<$name> for $ty
IntoTy(F, e) ==
    IF e.var = "UnrecognizedVariant"
    THEN e.i
    ELSE F.vars[CHOOSE k \in 1..Len(F.vars) : F.vars[k].var = e.var].val

\* The integers of the backing type that are used: those within Slack of a
\* named constant and of the ends of the type's range.
TestInts(F) ==
    LET near == UNION { { F.vars[k].val + d : d \in (0 - Slack)..Slack }
                        : k \in 1..Len(F.vars) }
        ends == { TyMin(F.ty) + d : d \in 0..Slack }
                    \cup { TyMax(F.ty) - d : d \in 0..Slack }
    IN  { v \in near \cup ends : v >= TyMin(F.ty) /\ v <= TyMax(F.ty) }

\* --------------------------------------- primitives (the Nl implementations
\* of the fixed-width integers and of Vec<u8>, and the stream buffers)

Pow256(k) ==
    CASE k = 0 -> 1
      [] k = 1 -> 256
      [] k = 2 -> 65536
      [] k = 3 -> 16777216

Reverse(s) == [k \in 1..Len(s) |-> s[Len(s) + 1 - k]]

\* The bytes of v in n bytes, two's complement, in host order.
IntBytes(v, n, en) ==
    LET le == [k \in 1..n |-> (v \div Pow256(k - 1)) % 256]
    IN  IF en = "little" THEN le ELSE Reverse(le)

RECURSIVE LeValue(_)
LeValue(b) == IF b = << >> THEN 0 ELSE b[1] + 256 * LeValue(Tail(b))

\* The integer of type ty that the bytes b (host order) hold.
BytesInt(ty, b, en) ==
    LET le == IF en = "little" THEN b ELSE Reverse(b)
        n == Len(le)
    IN  IF ty = "i32" /\ le[n] >= 128
        THEN LeValue(SubSeq(le, 1, n - 1)) + (le[n] - 256) * Pow256(n - 1)
        ELSE LeValue(le)

Ok(v) == [ok |-> TRUE, v |-> v]

SerError == [ok |-> FALSE, err |-> "SerError"]

DeError == [ok |-> FALSE, err |-> "DeError"]

\* A read buffer is the bytes not yet read (the cursor only moves forward).
\* <integer>::deserialize: n bytes or a DeError when fewer remain.
IntDeserialize(ty, mem, en) ==
    IF Len(mem) < TyBytes(ty)
    THEN [ok |-> FALSE, err |-> "DeError", mem |-> mem]
    ELSE [ok |-> TRUE,
          v |-> BytesInt(ty, SubSeq(mem, 1, TyBytes(ty)), en),
          mem |-> SubSeq(mem, TyBytes(ty) + 1, Len(mem))]

\* <integer>::serialize onto a growable write buffer.
IntSerialize(ty, v, mem, en) == mem \o IntBytes(v, TyBytes(ty), en)

\* Nl::serialize of an enumeration value
EnumSerialize(F, e, mem, en) == IntSerialize(F.ty, IntoTy(F, e), mem, en)

\* EnumDeserialize rejecting an integer that no named variant has.
EnumDeserialize_Strict(F, mem, en) ==
    LET r == IntDeserialize(F.ty, mem, en)
    IN  IF r.ok /\ FirstArm(F.vars, r.v) # 0
        THEN [ok |-> TRUE, v |-> FromTy(F, r.v), mem |-> r.mem]
        ELSE [ok |-> FALSE, err |-> "DeError", mem |-> mem]

\* Nl::deserialize of an enumeration value
EnumDeserialize(F, mem, en) ==
    LET r == IntDeserialize(F.ty, mem, en)
    IN  IF r.ok THEN [ok |-> TRUE, v |-> FromTy(F, r.v), mem |-> r.mem] ELSE r

\* Nl::size of an enumeration value: mem::size_of::<$ty>()
EnumSize(F, e) == TyBytes(F.ty)

\* Vec<u8> as Nl: the bytes as they are, with no length before them (the
\* expected bytes of test_serialize and test_deserialize in genl.rs).
VecSerialize(v, mem) == mem \o v

\* Vec<u8>::deserialize takes every byte that is left.
VecDeserialize(mem) == [ok |-> TRUE, v |-> mem, mem |-> << >>]

VecSize(v) == Len(v)

\* ------------------------------------------------------ alignto (consts.rs)

NLA_ALIGNTO == 4

UsizeMod == 2 ^ UsizeBits

\* len + NLA_ALIGNTO - 1 does not fit the machine word: a build with overflow
\* checks panics there, a build without them wraps.
AligntoOverflows(len) == len + NLA_ALIGNTO - 1 >= UsizeMod

\* alignto adding NLA_ALIGNTO instead of NLA_ALIGNTO - 1.
alignto_AddsAlignto(len) ==
    LET sum == (len + NLA_ALIGNTO) % UsizeMod
    IN  sum - (sum % NLA_ALIGNTO)

\* (len + NLA_ALIGNTO - 1) & !(NLA_ALIGNTO - 1) in wrapping arithmetic; the
\* mask clears the bits below NLA_ALIGNTO.
alignto(len) ==
    LET sum == (len + NLA_ALIGNTO - 1) % UsizeMod
    IN  sum - (sum % NLA_ALIGNTO)

\* ------------------------------------------------- attributes (Nlattr<T>)

\* Nlattr::new_binary_payload(None, nla_type, payload): nla_len is the
\* header plus the unpadded payload.
new_binary_payload(nla_type, payload) ==
    [nla_len |-> (4 + Len(payload)) % 65536,
     nla_type |-> nla_type,
     payload |-> payload]

\* Nlattr::new_str_payload(None, nla_type, s): the text and a NUL.
new_str_payload(nla_type, str) == new_binary_payload(nla_type, str \o << 0 >>)

NlattrSize(a) == 2 + 2 + Len(a.payload)

NlattrAsize(a) == alignto(NlattrSize(a))

Zeros(n) == [k \in 1..n |-> 0]

\* An attribute type of the caller's (any T: Nl + Into<u16> + From<u16>)
\* whose serialize returns the SerError carrying msg.
Failing(msg) == [var |-> "Failing", i |-> 0, msg |-> msg]

\* Nlattr::serialize: nla_len, nla_type, the payload, then zero bytes up to
\* the alignment boundary; the first failing write is returned.  The
\* attribute types here are CtrlAttr values or Failing ones.
NlattrSerialize(a, mem, en) ==
    LET m1 == IntSerialize("u16", a.nla_len, mem, en)
    IN  IF a.nla_type.var = "Failing"
        THEN [ok |-> FALSE, err |-> SerError.err, msg |-> a.nla_type.msg,
              mem |-> m1]
        ELSE LET m2 == EnumSerialize(CtrlAttr, a.nla_type, m1, en)
                 m3 == VecSerialize(a.payload, m2)
             IN  [ok |-> TRUE,
                  mem |-> m3 \o Zeros(NlattrAsize(a) - NlattrSize(a))]

\* ------------------------------------------------- Genlmsghdr<C> (genl.rs)

\* The for loop of Genlmsghdr::new: each item is serialized onto mem, and the
\* first failure is returned; left is the number of items not reached.
RECURSIVE SerializeItems(_, _, _)
SerializeItems(attrs, mem, en) ==
    IF attrs = << >>
    THEN [ok |-> TRUE, mem |-> mem, left |-> 0]
    ELSE LET r == NlattrSerialize(Head(attrs), mem, en)
         IN  IF r.ok THEN SerializeItems(Tail(attrs), r.mem, en)
             ELSE [ok |-> FALSE, err |-> SerError.err, msg |-> r.msg,
                   mem |-> r.mem, left |-> Len(attrs) - 1]

\* Genlmsghdr::new losing the padding of the last attribute (a scratch buffer
\* sized by size() instead of asize()).
GenlmsghdrNew_Unpadded(cmd, version, attrs, en) ==
    LET r == SerializeItems(attrs, << >>, en)
        n == IF attrs = << >> THEN 0
             ELSE Len(r.mem) - (NlattrAsize(attrs[Len(attrs)])
                                    - NlattrSize(attrs[Len(attrs)]))
    IN  Ok([cmd |-> cmd, version |-> version, reserved |-> 0,
            attrs |-> SubSeq(r.mem, 1, n)])

\* Genlmsghdr::new.  The scratch buffer is growable; its capacity hint (the
\* sum of the items' asize()) changes no result.  A failure carries the
\* item's error and called, the number of items whose serialize was called.
GenlmsghdrNew(cmd, version, attrs, en) ==
    LET r == SerializeItems(attrs, << >>, en)
    IN  IF r.ok
        THEN Ok([cmd |-> cmd, version |-> version, reserved |-> 0,
                 attrs |-> r.mem])
        ELSE [ok |-> FALSE, err |-> r.err, msg |-> r.msg,
              called |-> Len(attrs) - r.left]

\* Genlmsghdr::serialize writing version before cmd.
GenlmsghdrSerialize_VersionFirst(C, h, mem, en) ==
    LET m1 == IntSerialize("u8", h.version, mem, en)
        m2 == EnumSerialize(C, h.cmd, m1, en)
        m3 == IntSerialize("u16", h.reserved, m2, en)
    IN  VecSerialize(h.attrs, m3)

\* Genlmsghdr::serialize writing the length of attrs before attrs.
GenlmsghdrSerialize_LenPrefixed(C, h, mem, en) ==
    LET m1 == EnumSerialize(C, h.cmd, mem, en)
        m2 == IntSerialize("u8", h.version, m1, en)
        m3 == IntSerialize("u16", h.reserved, m2, en)
        m4 == IntSerialize("u16", Len(h.attrs) % 65536, m3, en)
    IN  VecSerialize(h.attrs, m4)

\* A write buffer of a fixed size: its bytes and its capacity.  A write
\* that does not fit is refused with a SerError and appends nothing.
WriteSized(cur, b) ==
    IF Len(cur.bytes) + Len(b) <= cur.cap
    THEN [ok |-> TRUE, cur |-> [bytes |-> cur.bytes \o b, cap |-> cur.cap]]
    ELSE [ok |-> FALSE, err |-> SerError.err, cur |-> cur]

\* The SerError of a write, with the buffer as it is left and the fields
\* whose write was called.
SerErrorAfter(r, wrote) ==
    [ok |-> FALSE, err |-> r.err, cur |-> r.cur, wrote |-> wrote]

\* Genlmsghdr::serialize carrying on after a refused write of version.
GenlmsghdrSerializeSized_KeepsGoing(C, h, cur, en) ==
    LET r1 == WriteSized(cur, EnumSerialize(C, h.cmd, << >>, en))
    IN  IF ~r1.ok THEN SerErrorAfter(r1, << "cmd" >>)
        ELSE LET r2 == WriteSized(r1.cur, IntSerialize("u8", h.version, << >>, en))
                 r3 == WriteSized(r2.cur, IntSerialize("u16", h.reserved, << >>, en))
        IN  IF ~r3.ok THEN SerErrorAfter(r3, << "cmd", "version", "reserved" >>)
        ELSE LET r4 == WriteSized(r3.cur, VecSerialize(h.attrs, << >>))
        IN  IF ~r4.ok
            THEN SerErrorAfter(r4, << "cmd", "version", "reserved", "attrs" >>)
        ELSE [ok |-> TRUE, cur |-> r4.cur,
              wrote |-> << "cmd", "version", "reserved", "attrs" >>]

\* Genlmsghdr::serialize onto a buffer of a fixed size: cmd, version,
\* reserved, attrs, and the first failing write is returned.
GenlmsghdrSerializeSized(C, h, cur, en) ==
    LET r1 == WriteSized(cur, EnumSerialize(C, h.cmd, << >>, en))
    IN  IF ~r1.ok THEN SerErrorAfter(r1, << "cmd" >>)
        ELSE LET r2 == WriteSized(r1.cur, IntSerialize("u8", h.version, << >>, en))
        IN  IF ~r2.ok THEN SerErrorAfter(r2, << "cmd", "version" >>)
        ELSE LET r3 == WriteSized(r2.cur, IntSerialize("u16", h.reserved, << >>, en))
        IN  IF ~r3.ok THEN SerErrorAfter(r3, << "cmd", "version", "reserved" >>)
        ELSE LET r4 == WriteSized(r3.cur, VecSerialize(h.attrs, << >>))
        IN  IF ~r4.ok
            THEN SerErrorAfter(r4, << "cmd", "version", "reserved", "attrs" >>)
        ELSE [ok |-> TRUE, cur |-> r4.cur,
              wrote |-> << "cmd", "version", "reserved", "attrs" >>]

\* Genlmsghdr::serialize: cmd, version, reserved, attrs.  Every write is
\* onto a growable buffer.
GenlmsghdrSerialize(C, h, mem, en) ==
    LET m1 == EnumSerialize(C, h.cmd, mem, en)
        m2 == IntSerialize("u8", h.version, m1, en)
        m3 == IntSerialize("u16", h.reserved, m2, en)
    IN  VecSerialize(h.attrs, m3)

\* Genlmsghdr::get_attr_handle: AttrHandle::Bin over the stored blob, as it is.
get_attr_handle(h) == [Bin |-> h.attrs]

\* Genlmsghdr::deserialize refusing a blob that is not whole 4-byte words.
GenlmsghdrDeserialize_WholeWords(C, mem, en) ==
    LET r1 == EnumDeserialize(C, mem, en)
    IN  IF ~r1.ok THEN DeError
        ELSE LET r2 == IntDeserialize("u8", r1.mem, en)
        IN  IF ~r2.ok THEN DeError
        ELSE LET r3 == IntDeserialize("u16", r2.mem, en)
        IN  IF ~r3.ok \/ Len(r3.mem) % NLA_ALIGNTO # 0 THEN DeError
        ELSE Ok([cmd |-> r1.v, version |-> r2.v, reserved |-> r3.v,
                 attrs |-> r3.mem])

\* The DeError of a read, with the fields whose read was called.
DeErrorAfter(r, read) == [ok |-> FALSE, err |-> r.err, read |-> read]

\* Genlmsghdr::deserialize: the fields are read in the order written, and
\* the first failing read is returned.
GenlmsghdrDeserialize(C, mem, en) ==
    LET r1 == EnumDeserialize(C, mem, en)
    IN  IF ~r1.ok THEN DeErrorAfter(r1, << "cmd" >>)
        ELSE LET r2 == IntDeserialize("u8", r1.mem, en)
        IN  IF ~r2.ok THEN DeErrorAfter(r2, << "cmd", "version" >>)
        ELSE LET r3 == IntDeserialize("u16", r2.mem, en)
        IN  IF ~r3.ok THEN DeErrorAfter(r3, << "cmd", "version", "reserved" >>)
        ELSE LET r4 == VecDeserialize(r3.mem)
        IN  IF ~r4.ok
            THEN DeErrorAfter(r4, << "cmd", "version", "reserved", "attrs" >>)
        ELSE Ok([cmd |-> r1.v, version |-> r2.v, reserved |-> r3.v,
                 attrs |-> r4.v])

\* Genlmsghdr::size without the reserved field.
GenlmsghdrSize_NoReserved(C, h) ==
    EnumSize(C, h.cmd) + TyBytes("u8") + VecSize(h.attrs)

\* Genlmsghdr::size
GenlmsghdrSize(C, h) ==
    EnumSize(C, h.cmd) + TyBytes("u8") + TyBytes("u16") + VecSize(h.attrs)

\* ------------------------------------------------------ Nlmsgerr<T> (err.rs)

\* Nlmsghdr<T, NlEmpty>, the outer header: nl_len, nl_type, nl_flags, nl_seq,
\* nl_pid, and an empty payload.  The types T here are Nlmsg values.
NlmsghdrSerialize(h, mem, en) ==
    LET m1 == IntSerialize("u32", h.nl_len, mem, en)
        m2 == EnumSerialize(Nlmsg, h.nl_type, m1, en)
        m3 == IntSerialize("u16", h.nl_flags, m2, en)
        m4 == IntSerialize("u32", h.nl_seq, m3, en)
    IN  IntSerialize("u32", h.nl_pid, m4, en)

NlmsghdrSize(h) ==
    TyBytes("u32") + EnumSize(Nlmsg, h.nl_type) + TyBytes("u16")
        + TyBytes("u32") + TyBytes("u32")

\* Nlmsgerr::serialize: error, then nlmsg.
NlmsgerrSerialize(e, mem, en) ==
    LET m1 == IntSerialize("i32", e.error, mem, en)
    IN  NlmsghdrSerialize(e.nlmsg, m1, en)

\* Nlmsgerr::size: mem::size_of::<libc::c_int>() + self.nlmsg.size()
NlmsgerrSize(e) == TyBytes("i32") + NlmsghdrSize(e.nlmsg)

\* ------------------------------------------ NlError, SerError, DeError (err.rs)

\* A text (&str, String) is the sequence of its characters.  to_string
\* makes an owned copy, character by character.
to_string(s) == [k \in 1..Len(s) |-> s[k]]

\* "No ack received"
NoAckText ==
    << "N", "o", " ", "a", "c", "k", " ", "r", "e", "c", "e", "i", "v", "e", "d" >>

\* NlError::Msg(String) and NlError::NoAck
NlErrorMsg(s) == [ty |-> "NlError", variant |-> "Msg", s |-> s]

NoAck == [ty |-> "NlError", variant |-> "NoAck"]

\* NlError::new
NlErrorNew(s) == NlErrorMsg(to_string(s))

\* SerError::new
SerErrorNew(msg) == [ty |-> "SerError", s |-> to_string(msg)]

\* DeError::new
DeErrorNew(s) == [ty |-> "DeError", s |-> to_string(s)]

\* The errors of std that try_err_compat is instantiated for; description()
\* is their own.
ForeignTypes ==
    { "io::Error", "str::Utf8Error", "string::FromUtf8Error",
      "ffi::FromBytesWithNulError" }

ForeignError(ty, desc) == [ty |-> ty, desc |-> desc]

\* Error::description
description(e) ==
    CASE e.ty = "NlError" -> IF e.variant = "Msg" THEN e.s ELSE NoAckText
      [] e.ty = "SerError" -> e.s
      [] e.ty = "DeError" -> e.s
      [] OTHER -> e.desc

\* Display::fmt: write!(f, "{}", ..) appends the text to the output f.
fmt(e, f) ==
    CASE e.ty = "NlError" -> f \o (IF e.variant = "Msg" THEN e.s ELSE NoAckText)
      [] e.ty = "SerError" -> f \o e.s
      [] e.ty = "DeError" -> f \o e.s

\* $err_name::new
ErrNew(err_name, s) ==
    CASE err_name = "NlError" -> NlErrorNew(s)
      [] err_name = "SerError" -> SerErrorNew(s)
      [] err_name = "DeError" -> DeErrorNew(s)

\* The source types each error type is convertible from: the three
\* try_err_compat! invocations.
FromTypes(err_name) ==
    CASE err_name = "NlError" -> { "io::Error", "SerError", "DeError" }
      [] err_name = "SerError" -> { "io::Error" }
      [] err_name = "DeError" -> ForeignTypes

\* From turning an error that describes itself as "No ack received" into
\* NlError::NoAck.
try_err_compat_NoAck(err_name, v) ==
    IF err_name = "NlError" /\ description(v) = NoAckText
    THEN NoAck
    ELSE ErrNew(err_name, description(v))

\* impl From<$from_err_name> for $err_name: $err_name::new(v.description())
try_err_compat(err_name, v) == ErrNew(err_name, description(v))

\* ------------------------------------------------------------------- state

VARIABLES
    pc,      \* the last operation of the current call sequence ("idle": none yet)
    endian,  \* the host's byte order: the integers on the wire are native-endian
    x,       \* the value in hand (an enumeration value, a header, an error frame)
    arg,     \* what the value in hand was built or read from
    wbuf,    \* the write buffer
    wpre,    \* the length the write buffer had before the last serialize
    res      \* the result of the last conversion or deserialize

vars == << pc, endian, x, arg, wbuf, wpre, res >>

Nothing == [none |-> TRUE]

\* What a write buffer may already hold when a value is serialized onto it.
Prefixes == { << >>, << 170 >> }

Init ==
    /\ pc = "idle"
    /\ endian \in { "little", "big" }
    /\ x = Nothing
    /\ arg = Nothing
    /\ wbuf = << >>
    /\ wpre = 0
    /\ res = Nothing

\* A call sequence ends; the codec keeps no state between calls.
Reset ==
    /\ pc # "idle"
    /\ pc' = "idle"
    /\ x' = Nothing
    /\ arg' = Nothing
    /\ wbuf' = << >>
    /\ wpre' = 0
    /\ res' = Nothing
    /\ UNCHANGED endian

\* ------------------------------------------------ enumeration call sequences

\* $name::from(v)
EnumFrom ==
    /\ pc = "idle"
    /\ \E name \in FamilyNames : \E v \in TestInts(Family(name)) :
        /\ x' = [fam |-> name, src |-> "from", e |-> FromTy(Family(name), v)]
        /\ arg' = [v |-> v]
    /\ pc' = "enum"
    /\ UNCHANGED << endian, wbuf, wpre, res >>

\* The caller names a variant: $name::$var.
EnumVariant ==
    /\ pc = "idle"
    /\ \E name \in FamilyNames : \E k \in 1..Len(Family(name).vars) :
        x' = [fam |-> name, src |-> "made", e |-> Named(Family(name).vars[k].var)]
    /\ pc' = "enum"
    /\ UNCHANGED << endian, arg, wbuf, wpre, res >>

\* The caller writes $name::UnrecognizedVariant(i) for an integer i, which
\* may be the constant of a named variant.
EnumUnrecognized ==
    /\ pc = "idle"
    /\ \E name \in FamilyNames : \E i \in TestInts(Family(name)) :
        x' = [fam |-> name, src |-> "made", e |-> UnrecognizedVariant(i)]
    /\ pc' = "enum"
    /\ UNCHANGED << endian, arg, wbuf, wpre, res >>

\* <$ty>::from(e)
EnumInto ==
    /\ pc = "enum"
    /\ res' = Ok(IntoTy(Family(x.fam), x.e))
    /\ pc' = "enum_into"
    /\ UNCHANGED << endian, x, arg, wbuf, wpre >>

\* e.serialize(&mut mem)
EnumSer ==
    /\ pc = "enum"
    /\ \E pre \in Prefixes :
        /\ wpre' = Len(pre)
        /\ wbuf' = EnumSerialize(Family(x.fam), x.e, pre, endian)
    /\ pc' = "enum_ser"
    /\ UNCHANGED << endian, x, arg, res >>

\* $name::deserialize over exactly the bytes e.serialize wrote
EnumSerDe ==
    /\ pc = "enum_ser"
    /\ res' = EnumDeserialize(Family(x.fam),
                              SubSeq(wbuf, wpre + 1, Len(wbuf)), endian)
    /\ pc' = "enum_serde"
    /\ UNCHANGED << endian, x, arg, wbuf, wpre >>

\* $name::deserialize over any buffer: the bytes of an integer v of the
\* backing type, cut short or followed by another byte.
EnumDe ==
    /\ pc = "idle"
    /\ \E name \in FamilyNames : \E v \in TestInts(Family(name)) :
       \E n \in 0..(TyBytes(Family(name).ty) + 1) :
        LET b == SubSeq(IntBytes(v, TyBytes(Family(name).ty), endian) \o << 7 >>,
                        1, n)
        IN  /\ x' = [fam |-> name]
            /\ arg' = [bytes |-> b, v |-> v]
            /\ res' = EnumDeserialize(Family(name), b, endian)
    /\ pc' = "enum_de"
    /\ UNCHANGED << endian, wbuf, wpre >>

\* ------------------------------------------------- Genlmsghdr call sequences

Fill(b, n) == [k \in 1..n |-> b]

\* The attributes handed to Genlmsghdr::new: binary payloads of every length
\* up to MaxPayload, the payload of test_serialize, and string payloads.
AttrPool ==
    { new_binary_payload(Named("FamilyId"), Fill(255, n)) : n \in 0..MaxPayload }
        \cup { new_binary_payload(Named("FamilyId"), << 0, 1, 2, 3, 4, 5, 0, 0 >>),
               new_str_payload(Named("FamilyId"), Fill(65, 7)),
               new_str_payload(UnrecognizedVariant(65535), Fill(65, 2)) }
        \cup { new_binary_payload(Failing(<< "E", "O", "F" >>), << 1 >>),
               new_binary_payload(Failing(<< "f", "u", "l", "l" >>), << >>) }

AttrLists == UNION { [1..n -> AttrPool] : n \in 0..MaxAttrs }

GenlCmds ==
    { Named("Getops"), Named("Unspec"), UnrecognizedVariant(255),
      UnrecognizedVariant(6) }

GenlVersions == { 2, 255 }

\* The bytes test_deserialize reads.
TestDeserializeBytes(en) ==
    << 6, 2 >> \o IntBytes(0, 2, en) \o IntBytes(12, 2, en) \o IntBytes(1, 2, en)
        \o << 65, 65, 65, 65, 65, 65, 65, 0 >>

RECURSIVE ByteSeqs(_)
ByteSeqs(n) ==
    IF n = 0 THEN { << >> }
    ELSE LET shorter == ByteSeqs(n - 1)
         IN  shorter \cup { Append(b, c) : b \in { t \in shorter : Len(t) = n - 1 },
                                           c \in { 0, 4, 255 } }

\* The buffers a header is read from.
GenlInputs(en) == ByteSeqs(MaxInput) \cup { TestDeserializeBytes(en) }

\* Genlmsghdr::new(cmd, version, attrs)
GenlNew ==
    /\ pc = "idle"
    /\ \E cmd \in GenlCmds : \E version \in GenlVersions : \E attrs \in AttrLists :
        LET r == GenlmsghdrNew(cmd, version, attrs, endian)
        IN  /\ arg' = [cmd |-> cmd, version |-> version, attrs |-> attrs]
            /\ res' = r
            /\ x' = IF r.ok THEN [hdr |-> r.v, src |-> "new"] ELSE Nothing
            /\ pc' = IF r.ok THEN "genl" ELSE "genl_err"
    /\ UNCHANGED << endian, wbuf, wpre >>

\* Genlmsghdr::<CtrlCmd>::deserialize over any buffer
GenlDe ==
    /\ pc = "idle"
    /\ \E b \in GenlInputs(endian) :
        LET r == GenlmsghdrDeserialize(CtrlCmd, b, endian)
        IN  /\ arg' = [bytes |-> b]
            /\ res' = r
            /\ x' = IF r.ok THEN [hdr |-> r.v, src |-> "de"] ELSE Nothing
            /\ pc' = IF r.ok THEN "genl" ELSE "genl_err"
    /\ UNCHANGED << endian, wbuf, wpre >>

\* h.serialize(&mut mem)
GenlSer ==
    /\ pc = "genl"
    /\ \E pre \in Prefixes :
        /\ wpre' = Len(pre)
        /\ wbuf' = GenlmsghdrSerialize(CtrlCmd, x.hdr, pre, endian)
    /\ pc' = "genl_ser"
    /\ UNCHANGED << endian, x, arg, res >>

\* h.serialize(&mut mem) for a buffer mem of a fixed size
GenlSerSized ==
    /\ pc = "genl"
    /\ \E pre \in Prefixes : \E room \in 0..MaxRoom :
        LET r == GenlmsghdrSerializeSized(
                     CtrlCmd, x.hdr, [bytes |-> pre, cap |-> Len(pre) + room],
                     endian)
        IN  /\ wpre' = Len(pre)
            /\ wbuf' = r.cur.bytes
            /\ res' = IF r.ok
                      THEN [ok |-> TRUE, wrote |-> r.wrote, room |-> room]
                      ELSE [ok |-> FALSE, err |-> r.err, wrote |-> r.wrote,
                            room |-> room]
    /\ pc' = "genl_sized"
    /\ UNCHANGED << endian, x, arg >>

\* Genlmsghdr::deserialize over exactly the bytes h.serialize wrote
GenlSerDe ==
    /\ pc = "genl_ser"
    /\ res' = GenlmsghdrDeserialize(CtrlCmd, SubSeq(wbuf, wpre + 1, Len(wbuf)),
                                    endian)
    /\ pc' = "genl_serde"
    /\ UNCHANGED << endian, x, arg, wbuf, wpre >>

\* The header read back is used as any other header.
GenlKeep ==
    /\ pc = "genl_serde"
    /\ res.ok
    /\ x' = [hdr |-> res.v, src |-> "de"]
    /\ arg' = [bytes |-> SubSeq(wbuf, wpre + 1, Len(wbuf))]
    /\ wbuf' = << >>
    /\ wpre' = 0
    /\ pc' = "genl"
    /\ UNCHANGED << endian, res >>

\* h.get_attr_handle()
GenlAttrHandle ==
    /\ pc = "genl"
    /\ res' = get_attr_handle(x.hdr)
    /\ pc' = "genl_handle"
    /\ UNCHANGED << endian, x, arg, wbuf, wpre >>

\* --------------------------------------------------- Nlmsgerr call sequences

Nlmsgerrs ==
    [error : { -95, -1, 0 },
     nlmsg : [nl_len : { 16, 36 },
              nl_type : { Named("Error"), UnrecognizedVariant(65535) },
              nl_flags : { 0, 5 },
              nl_seq : { 0, 1 },
              nl_pid : { 0, 4242 }]]

\* e.serialize(&mut mem) for an error frame e
ErrSer ==
    /\ pc = "idle"
    /\ \E e \in Nlmsgerrs : \E pre \in Prefixes :
        /\ x' = [err |-> e]
        /\ wpre' = Len(pre)
        /\ wbuf' = NlmsgerrSerialize(e, pre, endian)
    /\ pc' = "err_ser"
    /\ UNCHANGED << endian, arg, res >>

\* ------------------------------------------------------ error call sequences

\* The message texts: empty, the text of NoAck, and another.
Msgs == { << >>, NoAckText, << "E", "O", "F" >> }

\* What a formatter's output may already hold.
Outputs == { << >>, << ">" >> }

\* $err_name::new(m)
ErrorNew ==
    /\ pc = "idle"
    /\ \E err_name \in { "NlError", "SerError", "DeError" } : \E m \in Msgs :
        /\ x' = [e |-> ErrNew(err_name, m), how |-> "new", of |-> err_name]
        /\ arg' = [m |-> m]
    /\ pc' = "error"
    /\ UNCHANGED << endian, wbuf, wpre, res >>

\* The caller names NlError::NoAck.
ErrorNoAck ==
    /\ pc = "idle"
    /\ x' = [e |-> NoAck, how |-> "made", of |-> "NlError"]
    /\ pc' = "error"
    /\ UNCHANGED << endian, arg, wbuf, wpre, res >>

\* An error of std that describes itself as m arrives.
ErrorForeign ==
    /\ pc = "idle"
    /\ \E ty \in ForeignTypes : \E m \in Msgs :
        /\ x' = [e |-> ForeignError(ty, m), how |-> "std", of |-> ty]
        /\ arg' = [m |-> m]
    /\ pc' = "error"
    /\ UNCHANGED << endian, wbuf, wpre, res >>

\* $err_name::from(v)
ErrorFrom ==
    /\ pc = "error"
    /\ \E err_name \in { "NlError", "SerError", "DeError" } :
        /\ x.e.ty \in FromTypes(err_name)
        /\ x' = [e |-> try_err_compat(err_name, x.e), how |-> "from",
                 of |-> x.e.ty]
    /\ pc' = "error"
    /\ UNCHANGED << endian, arg, wbuf, wpre, res >>

\* write!(f, "{}", e) and e.description()
ErrorShow ==
    /\ pc = "error"
    /\ x.e.ty \notin ForeignTypes
    /\ \E f \in Outputs :
        res' = [pre |-> Len(f), out |-> fmt(x.e, f),
                description |-> description(x.e)]
    /\ pc' = "error_shown"
    /\ UNCHANGED << endian, x, arg, wbuf, wpre >>

\* ------------------------------------------------------ alignto call sequences

\* What alignto(len) does: its value, or, when the sum overflows the machine
\* word, either a panic (overflow checks on) or the wrapped value (off).
AligntoOutcomes(len) ==
    IF AligntoOverflows(len)
    THEN { Ok(alignto(len)), [ok |-> FALSE, err |-> "panic"] }
    ELSE { Ok(alignto(len)) }

\* alignto(n)
Align ==
    /\ pc = "idle"
    /\ \E n \in 0..(UsizeMod - 1) : \E r \in AligntoOutcomes(n) :
        /\ arg' = [n |-> n]
        /\ res' = r
    /\ pc' = "align"
    /\ UNCHANGED << endian, x, wbuf, wpre >>

\* alignto(alignto(n))
AlignAgain ==
    /\ pc = "align"
    /\ res.ok
    /\ x' = [first |-> res.v]
    /\ res' \in AligntoOutcomes(res.v)
    /\ pc' = "align2"
    /\ UNCHANGED << endian, arg, wbuf, wpre >>

Next ==
    \/ EnumFrom
    \/ EnumVariant
    \/ EnumUnrecognized
    \/ EnumInto
    \/ EnumSer
    \/ EnumSerDe
    \/ EnumDe
    \/ GenlNew
    \/ GenlDe
    \/ GenlSer
    \/ GenlSerSized
    \/ GenlSerDe
    \/ GenlKeep
    \/ GenlAttrHandle
    \/ ErrSer
    \/ ErrorNew
    \/ ErrorNoAck
    \/ ErrorForeign
    \/ ErrorFrom
    \/ ErrorShow
    \/ Align
    \/ AlignAgain
    \/ Reset

Spec == Init /\ [][Next]_vars

\* ------------------------------------------------------------------ claims

\* C1: for every family and every backing integer v, named or not,
\* converting v to the enumeration and back to the integer succeeds and
\* returns v.
C1_IntRoundTrip ==
    (pc = "enum_into" /\ x.src = "from") => res = Ok(arg.v)

\* C1 witness: an integer with no named variant went to the enumeration and back.
C1_Witness ==
    /\ pc = "enum_into"
    /\ x.src = "from"
    /\ x.e.var = "UnrecognizedVariant"
    /\ x.fam = "CtrlCmd"
    /\ res.v = 10

\* C2 as claimed: for every family and every enumeration value e, named
\* (aliases included) or UnrecognizedVariant(v), deserialize(serialize(e)) = e.
C2_SerDeRoundTrip ==
    pc = "enum_serde" => (res.ok /\ res.v = x.e)

\* C2 failing input: Arphrd::Atm is written and Arphrd::Appletlk is read back.
C2_FailingInput ==
    /\ pc = "enum_serde"
    /\ x.fam = "Arphrd"
    /\ x.e = Named("Atm")
    /\ res.ok
    /\ res.v = Named("Appletlk")

\* C3: deserializing an enumeration value fails exactly when the buffer
\* holds fewer bytes than the backing width; otherwise it returns the first
\* named variant whose constant is the integer read, or, when there is
\* none, UnrecognizedVariant carrying that integer.
C3_DeserializeTotal ==
    pc = "enum_de" =>
        LET F == Family(x.fam)
            named == { k \in 1..Len(F.vars) : F.vars[k].val = arg.v }
        IN  IF Len(arg.bytes) < TyBytes(F.ty)
            THEN ~res.ok /\ res.err = "DeError"
            ELSE /\ res.ok
                 /\ IF named = {}
                    THEN res.v = UnrecognizedVariant(arg.v)
                    ELSE \E k \in named :
                            /\ res.v = Named(F.vars[k].var)
                            /\ \A j \in named : k <= j

\* C3 witness: a full-width buffer holding a bit pattern no named variant
\* has was deserialized.
C3_Witness ==
    /\ pc = "enum_de"
    /\ x.fam = "CtrlAttr"
    /\ Len(arg.bytes) >= 2
    /\ res.ok
    /\ res.v = UnrecognizedVariant(65535)

\* The bytes the last serialize appended.
Written == SubSeq(wbuf, wpre + 1, Len(wbuf))

\* The padded wire record of an attribute: the 16-bit length of header and
\* unpadded payload, the 16-bit type, the payload, zeros up to a multiple of 4.
WireRecord(a, en) ==
    LET n == 4 + Len(a.payload)
    IN  IntBytes(n, 2, en) \o IntBytes(IntoTy(CtrlAttr, a.nla_type), 2, en)
            \o a.payload \o Zeros((4 - (n % 4)) % 4)

RECURSIVE WireRecords(_, _)
WireRecords(attrs, en) ==
    IF attrs = << >> THEN << >>
    ELSE WireRecord(Head(attrs), en) \o WireRecords(Tail(attrs), en)

TestSerializeArg ==
    [cmd |-> Named("Getops"), version |-> 2,
     attrs |-> << new_binary_payload(Named("FamilyId"),
                                     << 0, 1, 2, 3, 4, 5, 0, 0 >>) >>]

\* C4: the header Genlmsghdr::new(cmd, ver, attrs) returns serializes to the
\* one-byte integer of cmd, ver, two zero bytes and the attributes' padded
\* wire records in list order, with nothing before, between or after; for
\* Getops, 2 and one FamilyId attribute of payload [0,1,2,3,4,5,0,0] these
\* are command byte, 02, 00 00, length 12, FamilyId, the 8 payload bytes.
C4_SerializeLayout ==
    (pc = "genl_ser" /\ x.src = "new") =>
        /\ SubSeq(wbuf, 1, wpre) \in Prefixes
        /\ Written = << IntoTy(CtrlCmd, arg.cmd), arg.version, 0, 0 >>
                        \o WireRecords(arg.attrs, endian)
        /\ arg = TestSerializeArg =>
            Written = IF endian = "little"
                      THEN << 6, 2, 0, 0, 12, 0, 1, 0, 0, 1, 2, 3, 4, 5, 0, 0 >>
                      ELSE << 6, 2, 0, 0, 0, 12, 0, 1, 0, 1, 2, 3, 4, 5, 0, 0 >>

\* C4 witness: the header of test_serialize was serialized.
C4_Witness ==
    pc = "genl_ser" /\ x.src = "new" /\ arg = TestSerializeArg /\ wpre = 1

\* The length n as a w-byte length prefix.
LenPrefix(n, w, en) ==
    LET le == [k \in 1..w |-> IF k = 1 THEN n % 256
                              ELSE IF k = 2 THEN (n \div 256) % 256 ELSE 0]
    IN  IF en = "little" THEN le ELSE Reverse(le)

\* C5 as claimed: after cmd, version and reserved the output holds a length
\* prefix giving the byte length of attrs, then the attrs bytes.
C5_LengthPrefixed ==
    pc = "genl_ser" =>
        \E w \in { 1, 2, 4, 8 } :
            /\ Len(Written) = 4 + w + Len(x.hdr.attrs)
            /\ SubSeq(Written, 5, 4 + w) = LenPrefix(Len(x.hdr.attrs), w, endian)
            /\ SubSeq(Written, 5 + w, Len(Written)) = x.hdr.attrs

\* C5 amended: after cmd, version and reserved the output holds the attrs
\* bytes and nothing else, with no length before them; deserialize takes
\* every byte after the reserved field as attrs.
C5_AttrsVerbatim ==
    /\ pc = "genl_ser" =>
        /\ Len(Written) = 4 + Len(x.hdr.attrs)
        /\ SubSeq(Written, 5, Len(Written)) = x.hdr.attrs
    /\ (pc = "genl_serde" /\ res.ok) =>
        res.v.attrs = SubSeq(Written, 5, Len(Written))
    /\ (pc = "genl" /\ x.src = "de") =>
        x.hdr.attrs = SubSeq(arg.bytes, 5, Len(arg.bytes))

\* C5 witness: a header with a 12-byte attribute blob was written and read.
C5_Witness ==
    /\ pc = "genl_serde"
    /\ res.ok
    /\ Len(x.hdr.attrs) = 12
    /\ Len(Written) = 16

\* C6 as claimed: for every header h that Genlmsghdr::new returns,
\* deserializing exactly the bytes serialize(h) wrote succeeds and yields a
\* header equal to h in cmd, version, reserved and attrs.
C6_HeaderRoundTrip ==
    (pc = "genl_serde" /\ x.src = "new") => (res.ok /\ res.v = x.hdr)

\* C6 failing input: the header new built with cmd UnrecognizedVariant(6) and
\* no attributes is written as 4 bytes and read back with cmd Getops.
C6_FailingInput ==
    /\ pc = "genl_serde"
    /\ x.src = "new"
    /\ x.hdr.cmd = UnrecognizedVariant(6)
    /\ Len(Written) = 4
    /\ res.ok
    /\ res.v.cmd = Named("Getops")
    /\ res.v.version = x.hdr.version
    /\ res.v.reserved = x.hdr.reserved
    /\ res.v.attrs = x.hdr.attrs

\* C7 as claimed: the two reserved bytes serialize writes are zero for every
\* header that new or deserialize returns.
C7_ReservedZero ==
    pc = "genl_ser" => (Written[3] = 0 /\ Written[4] = 0)

\* C7 failing input: the header read from the bytes 0, 0, 0, 4 is written
\* with the reserved bytes 0, 4.
C7_FailingInput ==
    /\ pc = "genl_ser"
    /\ x.src = "de"
    /\ arg.bytes = << 0, 0, 0, 4 >>
    /\ Written = << 0, 0, 0, 4 >>

\* A blob that splits end to end into records whose declared length is at
\* least the header's 4 bytes and whose aligned extent lies inside the blob.
RECURSIVE ValidTlv(_, _)
ValidTlv(blob, en) ==
    \/ blob = << >>
    \/ /\ Len(blob) >= 4
       /\ LET len == BytesInt("u16", SubSeq(blob, 1, 2), en)
          IN  /\ len >= 4
              /\ alignto(len) <= Len(blob)
              /\ ValidTlv(SubSeq(blob, alignto(len) + 1, Len(blob)), en)

C9_SizeIsBytesWritten ==
    /\ pc = "enum_ser" =>
        /\ Len(Written) = EnumSize(Family(x.fam), x.e)
        /\ Len(Written) = TyBytes(Family(x.fam).ty)
    /\ pc = "genl_ser" =>
        /\ Len(Written) = GenlmsghdrSize(CtrlCmd, x.hdr)
        /\ Len(Written) = 4 + Len(x.hdr.attrs)
    /\ pc = "err_ser" =>
        /\ Len(Written) = NlmsgerrSize(x.err)
        /\ Len(Written) = 4 + NlmsghdrSize(x.err.nlmsg)

\* C9 witness: a header with a non-empty attribute blob was appended to a
\* buffer that already held a byte.
C9_Witness ==
    /\ pc = "genl_ser"
    /\ wpre = 1
    /\ Len(x.hdr.attrs) = 8
    /\ Len(wbuf) = 13

C11_NeverDecreases ==
    pc = "align" => (res.ok /\ res.v >= arg.n /\ res.v - arg.n <= 3)

\* C11 failing input: for the largest n of the machine word the sum n + 3
\* wraps and alignto returns 0.
C11_FailingInput ==
    /\ pc = "align"
    /\ arg.n = UsizeMod - 1
    /\ AligntoOverflows(arg.n)
    /\ res = Ok(0)

\* The input of the last deserialize stops inside an attribute header: cmd,
\* version and reserved are whole and 1 to 3 bytes follow them.
TruncatedInHeader ==
    /\ pc \in { "genl", "genl_err", "genl_handle" }
    /\ "bytes" \in DOMAIN arg
    /\ Len(arg.bytes) \in 5..7

Shown == SubSeq(res.out, res.pre + 1, Len(res.out))

\* C13: converting a SerError or DeError that carries the message m gives
\* NlError::Msg carrying m, never NlError::NoAck, and its description and
\* its Display output are m; NlError::NoAck describes and displays itself
\* as "No ack received"; a SerError or DeError built with new(m) describes
\* and displays itself as m.
C13_ErrorText ==
    /\ (pc \in { "error", "error_shown" } /\ x.how = "from"
            /\ x.e.ty = "NlError" /\ x.of \in { "SerError", "DeError" }) =>
        (x.e = NlErrorMsg(arg.m) /\ x.e # NoAck)
    /\ (pc = "error_shown" /\ x.how \in { "new", "from" }) =>
        (res.description = arg.m /\ Shown = arg.m)
    /\ (pc = "error_shown" /\ x.e = NoAck) =>
        (res.description = NoAckText /\ Shown = NoAckText)
    /\ pc = "error_shown" => SubSeq(res.out, 1, res.pre) \in Outputs

\* C13 witness: a SerError carrying "No ack received" was converted to an
\* NlError and shown after a character already in the output.
C13_Witness ==
    /\ pc = "error_shown"
    /\ x.how = "from"
    /\ x.of = "SerError"
    /\ x.e = NlErrorMsg(NoAckText)
    /\ arg.m = NoAckText
    /\ res.pre = 1
    /\ Len(res.out) = 16

\* The fields of a header in the order they are written and read.
Fields == << "cmd", "version", "reserved", "attrs" >>

\* The bytes serialize writes for the first k fields of the header h.
FieldBytes(h, k, en) ==
    LET b == << << IntoTy(CtrlCmd, h.cmd) >>, << h.version >>,
                IntBytes(h.reserved, 2, en), h.attrs >>
    IN  IF k = 0 THEN << >>
        ELSE IF k = 1 THEN b[1]
        ELSE IF k = 2 THEN b[1] \o b[2]
        ELSE IF k = 3 THEN b[1] \o b[2] \o b[3]
        ELSE b[1] \o b[2] \o b[3] \o b[4]

\* The first of the header's fields that does not fit a room of n bytes; 5
\* when all four fit.
FirstUnfit(h, n, en) ==
    CHOOSE k \in 1..5 :
        /\ k <= 4 => Len(FieldBytes(h, k, en)) > n
        /\ \A j \in 1..(k - 1) : Len(FieldBytes(h, j, en)) <= n

\* The places of the attributes of a list whose serialize fails.
FailingAt(attrs) == { k \in 1..Len(attrs) : attrs[k].nla_type.var = "Failing" }

\* C14: a failure is returned at the first failing step, with no later step
\* taken and no value returned.  Genlmsghdr::new returns the SerError of the
\* first attribute whose serialize fails, calls serialize on no later
\* attribute and returns no header, and it returns a header when none
\* fails.  Genlmsghdr::serialize returns the SerError of the first field
\* (cmd, version, reserved, attrs) whose write fails, having written the
\* fields before it and none after it.  Genlmsghdr::deserialize returns the
\* DeError of the first field whose read fails (input shorter than 4
\* bytes), reads no later field and returns no header.
C14_FirstFailureReturned ==
    /\ (pc \in { "genl", "genl_err" } /\ "attrs" \in DOMAIN arg) =>
        LET bad == FailingAt(arg.attrs)
        IN  IF bad = {}
            THEN pc = "genl" /\ res.ok /\ x.hdr = res.v
            ELSE LET i == CHOOSE k \in bad : \A j \in bad : k <= j
                 IN  /\ pc = "genl_err"
                     /\ ~res.ok
                     /\ res.err = "SerError"
                     /\ res.msg = arg.attrs[i].nla_type.msg
                     /\ res.called = i
                     /\ x = Nothing
    /\ pc = "genl_sized" =>
        LET i == FirstUnfit(x.hdr, res.room, endian)
        IN  /\ res.ok <=> i = 5
            /\ ~res.ok => res.err = "SerError"
            /\ res.wrote = SubSeq(Fields, 1, IF i = 5 THEN 4 ELSE i)
            /\ Written = FieldBytes(x.hdr, i - 1, endian)
            /\ res.ok => Written = GenlmsghdrSerialize(CtrlCmd, x.hdr, << >>, endian)
            /\ SubSeq(wbuf, 1, wpre) \in Prefixes
    /\ (pc \in { "genl", "genl_err" } /\ "bytes" \in DOMAIN arg) =>
        IF Len(arg.bytes) >= 4
        THEN pc = "genl" /\ x.src = "de"
        ELSE /\ pc = "genl_err"
             /\ ~res.ok
             /\ res.err = "DeError"
             /\ res.read = SubSeq(Fields, 1, IF Len(arg.bytes) >= 2 THEN 3
                                              ELSE Len(arg.bytes) + 1)
             /\ x = Nothing

\* C14 witness: new was given two attributes, the first of which failed to
\* serialize; serialize was called on that one only and its error returned.
C14_Witness ==
    /\ pc = "genl_err"
    /\ "attrs" \in DOMAIN arg
    /\ Len(arg.attrs) = 2
    /\ FailingAt(arg.attrs) = { 1, 2 }
    /\ arg.attrs[1].nla_type.msg # arg.attrs[2].nla_type.msg
    /\ res.called = 1
    /\ res.msg = arg.attrs[1].nla_type.msg

\* A write of the reserved field was refused: cmd and version are in the
\* buffer and attrs was not written.
C14_ReservedRefused ==
    /\ pc = "genl_sized"
    /\ res.room = 3
    /\ ~res.ok
    /\ res.wrote = << "cmd", "version", "reserved" >>
    /\ Len(x.hdr.attrs) = 4
    /\ Len(Written) = 2

====
